---- MODULE Spec2Model ----
(***************************************************************************)
(* Grid search engines of PathPlanning/Search_based_Planning/Search_2D:    *)
(* AStar (Real_Astar.py), Dijkstra (Standard_Dijkstra.py), BFS             *)
(* (Standard_BFS.py) and DFS (Standard_DFS.py).                            *)
(*                                                                         *)
(* A coordinate is a pair <<x, y>>.  The grid is the rectangle             *)
(* 0..GridW+1 x 0..GridH+1 whose border cells are obstacles, as in the     *)
(* repository's Env; the interior 1..GridW x 1..GridH holds up to MaxObs   *)
(* further obstacles.  Dijkstra, BFS and DFS inherit get_neighbor,          *)
(* is_collision and extract_path from the AStar class; the model takes     *)
(* them from the AStar class of Real_Astar.py.  The terrain overlay is     *)
(* drawn in __init__ from a generator seeded with 42: the model fixes an   *)
(* arbitrary overlay at construction that never covers an obstacle, the    *)
(* start or the goal.                                                      *)
(*                                                                         *)
(* Costs are Python floats in the source.  The model computes with them as *)
(* real numbers, kept in millionths: an orthogonal step of terrain 1 costs *)
(* 1000000, a diagonal step 1414213, math.inf is Inf.  A heuristic weight  *)
(* w is kept as the integer 2*w (the source uses 0.0, 1.0, 2.5 and steps   *)
(* of 0.5), and the priorities of the AStar heap are kept doubled,         *)
(* 2*g + (2*w)*h, so that they stay integers.  Two priorities that are     *)
(* equal as real numbers are equal in the model and the heap then orders   *)
(* the entries by coordinate; Python's rounding of the last bit of a float *)
(* sum is not modelled.                                                    *)
(***************************************************************************)
EXTENDS Integers, Sequences, FiniteSets, TLC

\* ------------------------------------------------------------------ bounds
GridW == 3
GridH == 3
MaxObs == 2
MaxTerrain == 1
\* inner obstacles of the grids the AStar engines run on
MaxObsAStar == 1
\* obstacle-free grids of the breadth-first layering claims
FreeW == 4
FreeH == 3
\* the generator of random has RngMod states
RngMod == 32
\* coordinates a tier of _initialize_terrain aims to place (40, 35, 25, 30 in
\* the source) and the attempts it may spend on them (1000 in the source)
TierTarget == 1
MaxAttempts == 3
\* iterations of the while loops the calls on one engine are followed for
MaxIterations == 3 * GridW * GridH
\* attempts a tier loop is followed for
MaxAttemptsFollowed == 2 * MaxAttempts
\* grids whose parent maps extract_path is applied to
ParentW == 2
ParentH == 2

\* ------------------------------------------------------- program constants
\* math.inf
Inf == 2000000000
\* the largest heuristic weight the demo uses (2.5), doubled
MaxWeight2 == 5
\* random.seed(42)
SeedValue == 42
\* _set_surrounding_costs(center, distance=3)
RingDistance == 3

VARIABLES
    obs,              \* Env.obs: the blocked coordinates
    terrain_cost,     \* self.terrain_cost: coordinate -> multiplier 2..5
    alg,              \* the engine's class: "AStar", "Dijkstra", "BFS", "DFS"
    s_start, s_goal,  \* self.s_start, self.s_goal
    heuristic_type,   \* self.heuristic_type
    heuristic_weight, \* 2 * self.heuristic_weight
    u_set,            \* self.u_set: the neighbour offsets, in order
    OPEN,             \* self.OPEN: the heapq array of <<priority, coordinate>>
    CLOSED,           \* self.CLOSED
    PARENT,           \* self.PARENT
    g,                \* self.g
    stack,            \* DFS.searching: local stack
    visited,          \* DFS.searching: local visited set
    loc,              \* repeated_searching: its locals g, PARENT, OPEN, CLOSED, e
    pc,               \* where the caller stands
    done,             \* how the loop of the last search ended
    path,             \* the path of the last return
    calls,            \* searching() invocations started on this engine
    ret1,             \* what an earlier call or construction produced
    anytime,          \* searching_repeated_astar: its locals e, path, visited
    rng,              \* the state of the process-wide generator of random
    terrain_colors,   \* self.terrain_colors: coordinate -> colour name
    terrain_loc       \* _initialize_terrain: its locals, while it runs

vars == <<obs, terrain_cost, alg, s_start, s_goal, heuristic_type,
          heuristic_weight, u_set, OPEN, CLOSED, PARENT, g, stack, visited,
          loc, pc, done, path, calls, ret1, anytime, rng, terrain_colors,
          terrain_loc>>

\* what no search writes
config == <<obs, terrain_cost, alg, s_start, s_goal, heuristic_type,
            heuristic_weight, u_set, rng, terrain_colors, terrain_loc>>

\* ------------------------------------------------------------ environment
Border(w, h) ==
    {c \in (0..w+1) \X (0..h+1) : c[1] \in {0, w+1} \/ c[2] \in {0, h+1}}

Interior(w, h) == (1..w) \X (1..h)

\* u_set of AStar.__init__
Motions8 == << <<-1, 0>>, <<-1, 1>>, <<0, 1>>, <<1, 1>>,
               <<1, 0>>, <<1, -1>>, <<0, -1>>, <<-1, -1>> >>

\* u_set of Dijkstra, BFS and DFS
Motions4 == << <<0, 1>>, <<0, -1>>, <<-1, 0>>, <<1, 0>> >>

Abs(n) == IF n < 0 THEN -n ELSE n
Min(a, b) == IF a < b THEN a ELSE b
Max(a, b) == IF a < b THEN b ELSE a

\* a Python dict as a function: d[k] = v
Put(d, k, v) == [x \in DOMAIN d \cup {k} |-> IF x = k THEN v ELSE d[x]]

EmptyDict == [x \in {} |-> 0]

\* float addition with math.inf
Plus(a, b) == IF a = Inf \/ b = Inf THEN Inf ELSE a + b

\* sqrt(k) in millionths, rounded down, for k = 1..50; sqrt(2 m^2) is kept as
\* m times sqrt(2), so that sums that are equal as real numbers stay equal
SqrtMicro ==
    << 1000000, 1414213, 1732050, 2000000, 2236067,
       2449489, 2645751, 2828426, 3000000, 3162277,
       3316624, 3464101, 3605551, 3741657, 3872983,
       4000000, 4123105, 4242639, 4358898, 4472135,
       4582575, 4690415, 4795831, 4898979, 5000000,
       5099019, 5196152, 5291502, 5385164, 5477225,
       5567764, 5656852, 5744562, 5830951, 5916079,
       6000000, 6082762, 6164414, 6244997, 6324555,
       6403124, 6480740, 6557438, 6633249, 6708203,
       6782329, 6855654, 6928203, 7000000, 7071065 >>

\* math.hypot(dx, dy), in millionths
Hypot(dx, dy) ==
    LET k == dx * dx + dy * dy IN IF k = 0 THEN 0 ELSE SqrtMicro[k]

\* --------------------------------------------------- topology and cost
\* AStar.get_terrain_cost / Dijkstra.get_terrain_cost
get_terrain_cost(node) ==
    IF node \in DOMAIN terrain_cost THEN terrain_cost[node] ELSE 1

\* a collision test that looks at the two endpoints only
is_collisionEndpointsOnly(a, b) == a \in obs \/ b \in obs

\* a collision test that looks at the coordinate a move leaves only
is_collisionSourceOnly(a, b) == a \in obs

\* AStar.is_collision (inherited by Dijkstra, BFS and DFS)
is_collision(a, b) ==
    IF a \in obs \/ b \in obs THEN TRUE
    ELSE IF a[1] # b[1] /\ a[2] # b[2]
         THEN LET s1 == IF b[1] - a[1] = a[2] - b[2]
                        THEN <<Min(a[1], b[1]), Min(a[2], b[2])>>
                        ELSE <<Min(a[1], b[1]), Max(a[2], b[2])>>
                  s2 == IF b[1] - a[1] = a[2] - b[2]
                        THEN <<Max(a[1], b[1]), Max(a[2], b[2])>>
                        ELSE <<Max(a[1], b[1]), Min(a[2], b[2])>>
              IN  s1 \in obs \/ s2 \in obs
         ELSE FALSE

\* a cost that forgets the terrain multiplier
AStarCostFlat(a, b) ==
    IF is_collision(a, b) THEN Inf ELSE Hypot(b[1] - a[1], b[2] - a[2])

\* AStar.cost: Euclidean step length x terrain multiplier of the destination
AStarCost(a, b) ==
    IF is_collision(a, b) THEN Inf
    ELSE Hypot(b[1] - a[1], b[2] - a[2]) * get_terrain_cost(b)

\* Dijkstra.cost: terrain multiplier of the destination
DijkstraCost(a, b) ==
    IF is_collision(a, b) THEN Inf ELSE get_terrain_cost(b)

\* BFS.cost and DFS.cost
UnitCost(a, b) ==
    IF is_collision(a, b) THEN Inf ELSE 1

\* self.cost of the engine's class
cost(a, b) ==
    CASE alg = "AStar" -> AStarCost(a, b)
      [] alg = "Dijkstra" -> DijkstraCost(a, b)
      [] OTHER -> UnitCost(a, b)

\* AStar.heuristic, in millionths
heuristic(s) ==
    IF heuristic_type = "manhattan"
    THEN 1000000 * (Abs(s_goal[1] - s[1]) + Abs(s_goal[2] - s[2]))
    ELSE Hypot(s_goal[1] - s[1], s_goal[2] - s[2])

\* a priority that forgets g
WeightedGreedy(gval, w2, s) ==
    IF gval = Inf THEN Inf ELSE w2 * heuristic(s)

\* g + w * h, doubled; w2 is 2*w
Weighted(gval, w2, s) ==
    IF gval = Inf THEN Inf ELSE 2 * gval + w2 * heuristic(s)

\* AStar.f_value
f_value(gmap, s) == Weighted(gmap[s], heuristic_weight, s)

\* AStar.get_neighbor: its i-th element, and the list
Neighbor(s, i) == <<s[1] + u_set[i][1], s[2] + u_set[i][2]>>

get_neighbor(s) == [i \in 1..Len(u_set) |-> Neighbor(s, i)]

\* ------------------------------------------------------------- heapq
\* Python's order on (priority, (x, y)) tuples
ItemLt(a, b) ==
    \/ a[1] < b[1]
    \/ a[1] = b[1] /\ a[2][1] < b[2][1]
    \/ a[1] = b[1] /\ a[2][1] = b[2][1] /\ a[2][2] < b[2][2]

Swap(h, i, j) == [h EXCEPT ![i] = h[j], ![j] = h[i]]

\* heapq._siftdown: positions are 0-based as in heapq, h is 1-based
RECURSIVE SiftDown(_, _, _)
SiftDown(h, startpos, pos) ==
    LET parentpos == (pos - 1) \div 2 IN
    IF pos > startpos /\ ItemLt(h[pos + 1], h[parentpos + 1])
    THEN SiftDown(Swap(h, pos + 1, parentpos + 1), startpos, parentpos)
    ELSE h

\* heapq._siftup, the loop that moves the smaller child up to the leaf level;
\* the result is <<heap, final position of the moved item>>
RECURSIVE BubbleToLeaf(_, _)
BubbleToLeaf(h, pos) ==
    LET childpos == 2 * pos + 1
        rightpos == childpos + 1
        c == IF rightpos < Len(h) /\ ~ItemLt(h[childpos + 1], h[rightpos + 1])
             THEN rightpos ELSE childpos
    IN  IF childpos < Len(h)
        THEN BubbleToLeaf(Swap(h, pos + 1, c + 1), c)
        ELSE <<h, pos>>

SiftUp(h, pos) ==
    LET r == BubbleToLeaf(h, pos) IN SiftDown(r[1], pos, r[2])

\* heapq.heappush
HeapPush(h, item) == SiftDown(Append(h, item), 0, Len(h))

\* heapq.heappop: <<popped item, heap>>
HeapPop(h) ==
    LET lastelt == h[Len(h)]
        rest == SubSeq(h, 1, Len(h) - 1)
    IN  IF rest = <<>> THEN <<lastelt, rest>>
        ELSE <<rest[1], SiftUp([rest EXCEPT ![1] = lastelt], 0)>>

\* ------------------------------------------------------ the search loop
\* the bookkeeping a search works on: self.g, self.PARENT, self.OPEN and
\* self.CLOSED in searching(), the locals of the same names in
\* repeated_searching()
Frame(gm, par, op, cl) == [g |-> gm, PARENT |-> par, OPEN |-> op, CLOSED |-> cl]

\* the priority a relaxed neighbour is pushed with; w2 is the doubled weight
\* (self.heuristic_weight in searching, e in repeated_searching)
PushPriority(st, n, new_cost, w2) ==
    CASE alg = "AStar" -> Weighted(new_cost, w2, n)
      [] alg = "Dijkstra" -> new_cost
      [] OTHER -> IF Len(st.OPEN) > 0 THEN st.OPEN[Len(st.OPEN)][1] + 1 ELSE 0

\* a relaxation that never improves a coordinate it has already reached
RelaxFirstOnly(st, s, n, w2) ==
    LET new_cost == Plus(st.g[s], cost(s, n))
        g1 == IF n \in DOMAIN st.g THEN st.g ELSE Put(st.g, n, Inf)
    IN  IF new_cost < g1[n] /\ g1[n] = Inf
        THEN [st EXCEPT !.g = Put(g1, n, new_cost),
                        !.PARENT = Put(@, n, s),
                        !.OPEN = HeapPush(@, <<PushPriority(st, n, new_cost, w2), n>>)]
        ELSE [st EXCEPT !.g = g1]

\* a relaxation that takes every move that is not a collision, improvement or
\* not
RelaxAlways(st, s, n, w2) ==
    LET new_cost == Plus(st.g[s], cost(s, n))
        g1 == IF n \in DOMAIN st.g THEN st.g ELSE Put(st.g, n, Inf)
    IN  IF new_cost < Inf
        THEN [st EXCEPT !.g = Put(g1, n, new_cost),
                        !.PARENT = Put(@, n, s),
                        !.OPEN = HeapPush(@, <<PushPriority(st, n, new_cost, w2), n>>)]
        ELSE [st EXCEPT !.g = g1]

\* one pass of the for loop over the neighbours: relax (s, n)
Relax(st, s, n, w2) ==
    LET new_cost == Plus(st.g[s], cost(s, n))
        g1 == IF n \in DOMAIN st.g THEN st.g ELSE Put(st.g, n, Inf)
    IN  IF new_cost < g1[n]
        THEN [st EXCEPT !.g = Put(g1, n, new_cost),
                        !.PARENT = Put(@, n, s),
                        !.OPEN = HeapPush(@, <<PushPriority(st, n, new_cost, w2), n>>)]
        ELSE [st EXCEPT !.g = g1]

RECURSIVE RelaxFrom(_, _, _, _)
RelaxFrom(st, s, i, w2) ==
    IF i > Len(u_set) THEN st
    ELSE RelaxFrom(Relax(st, s, Neighbor(s, i), w2), s, i + 1, w2)

\* an iteration without the stop condition: the goal's neighbours are relaxed
\* like those of any other coordinate
IterateThroughGoal(st, w2) ==
    LET popped == HeapPop(st.OPEN)
        s == popped[1][2]
        st1 == [st EXCEPT !.OPEN = popped[2], !.CLOSED = Append(@, s)]
    IN  RelaxFrom(st1, s, 1, w2)

\* one iteration of the while loop of the heap variants: pop, append to
\* CLOSED, stop at the goal, else relax every neighbour
Iterate(st, w2) ==
    LET popped == HeapPop(st.OPEN)
        s == popped[1][2]
        st1 == [st EXCEPT !.OPEN = popped[2], !.CLOSED = Append(@, s)]
    IN  IF s = s_goal THEN st1 ELSE RelaxFrom(st1, s, 1, w2)

\* AStar.extract_path: [kind, path]; kind is "ok", "KeyError" when a link is
\* missing, "diverges" when the walk never meets s_start
\* a walk that returns what it has collected when a coordinate has no entry
WalkPartial(par, s, acc) == [kind |-> "ok", path |-> acc]

RECURSIVE Walk(_, _, _)
Walk(par, s, acc) ==
    IF s \notin DOMAIN par THEN [kind |-> "KeyError", path |-> acc]
    ELSE LET s2 == par[s]
             acc2 == Append(acc, s2)
         IN  IF s2 = s_start THEN [kind |-> "ok", path |-> acc2]
             ELSE IF Len(acc2) > Cardinality(DOMAIN par) + 1
                  THEN [kind |-> "diverges", path |-> acc2]
                  ELSE Walk(par, s2, acc2)

extract_path(par) == Walk(par, s_goal, <<s_goal>>)

\* a push loop that does not look at the visited set
RECURSIVE DFSPushUnchecked(_, _, _)
DFSPushUnchecked(st, s, i) ==
    IF i > Len(u_set) THEN st
    ELSE LET n == Neighbor(s, i) IN
         IF ~is_collision(s, n)
         THEN DFSPushUnchecked([st EXCEPT !.visited = @ \cup {n},
                                          !.PARENT = Put(@, n, s),
                                          !.g = Put(@, n, st.g[s] + 1),
                                          !.stack = Append(@, n)], s, i + 1)
         ELSE DFSPushUnchecked(st, s, i + 1)

\* one iteration of the while loop of DFS.searching on
\* [stack, visited, PARENT, g, CLOSED]
RECURSIVE DFSPushFrom(_, _, _)
DFSPushFrom(st, s, i) ==
    IF i > Len(u_set) THEN st
    ELSE LET n == Neighbor(s, i) IN
         IF n \notin st.visited /\ ~is_collision(s, n)
         THEN DFSPushFrom([st EXCEPT !.visited = @ \cup {n},
                                     !.PARENT = Put(@, n, s),
                                     !.g = Put(@, n, st.g[s] + 1),
                                     !.stack = Append(@, n)], s, i + 1)
         ELSE DFSPushFrom(st, s, i + 1)

DFSIterate(st) ==
    LET s == st.stack[Len(st.stack)]
        st1 == [st EXCEPT !.stack = SubSeq(@, 1, Len(@) - 1),
                          !.CLOSED = Append(@, s)]
    IN  IF s = s_goal THEN st1 ELSE DFSPushFrom(st1, s, 1)

\* ---------------------------------------------------------- construction
\* the multipliers _initialize_terrain and _set_surrounding_costs assign
TerrainTiers == {2, 3, 4, 5}

\* color_map of _set_surrounding_costs; terrain_types pairs the multipliers
\* with the same colours
color_map == [c \in TerrainTiers |->
                 CASE c = 2 -> "red" [] c = 3 -> "yellow"
                   [] c = 4 -> "blue" [] OTHER -> "green"]

\* the colours the generator stores along with an overlay
ColorsOf(costs) == [n \in DOMAIN costs |-> color_map[costs[n]]]

\* the cheapest and the most expensive of them
CoarseTiers == {2, 5}

\* AStar.__init__ (and the subclasses' __init__): an engine of class a on a
\* w x h grid with at most mo inner obstacles and an overlay of at most mt
\* coordinates with multipliers in tiers, none of them blocked, s_start or
\* s_goal; the generator's state is followed only where the overlay is
\* generated (ConstructedWithTerrain)
Constructed(w, h, algs, htypes, weights, mo, mt, tiers) ==
    /\ \E o \in SUBSET Interior(w, h) :
          /\ Cardinality(o) <= mo
          /\ obs = Border(w, h) \cup o
    /\ s_start \in Interior(w, h)
    /\ s_goal \in Interior(w, h)
    /\ \E keys \in SUBSET (Interior(w, h) \ (obs \cup {s_start, s_goal})) :
          /\ Cardinality(keys) <= mt
          /\ terrain_cost \in [keys -> tiers]
    /\ alg \in algs
    /\ heuristic_type \in (IF alg = "AStar" THEN htypes ELSE {"None"})
    /\ heuristic_weight \in (IF alg = "AStar" THEN weights ELSE {2})
    /\ u_set = (IF alg = "AStar" THEN Motions8 ELSE Motions4)
    /\ OPEN = <<>>
    /\ CLOSED = <<>>
    /\ PARENT = EmptyDict
    /\ g = EmptyDict
    /\ stack = <<>>
    /\ visited = {}
    /\ loc = <<>>
    /\ pc = "ready"
    /\ done = "none"
    /\ path = <<>>
    /\ calls = 0
    /\ ret1 = <<>>
    /\ anytime = <<>>
    /\ rng = 0
    /\ terrain_colors = ColorsOf(terrain_cost)
    /\ terrain_loc = <<>>

\* ------------------------------------------------------------- searching
\* the statements of searching() before its while loop
SearchingBegins ==
    /\ calls' = calls + 1
    /\ done' = "none"
    /\ pc' = "loop"
    /\ PARENT' = Put(PARENT, s_start, s_start)
    /\ CLOSED' = CLOSED
    /\ IF alg = "DFS"
       THEN /\ g' = Put(g, s_start, 0)
            /\ stack' = <<s_start>>
            /\ visited' = {s_start}
            /\ OPEN' = OPEN
       ELSE /\ g' = Put(Put(g, s_start, 0), s_goal, Inf)
            /\ OPEN' = HeapPush(OPEN,
                          <<IF alg = "AStar" THEN f_value(g', s_start) ELSE 0,
                            s_start>>)
            /\ UNCHANGED <<stack, visited>>
    /\ UNCHANGED <<config, loc, path, ret1, anytime>>

\* searching() is called on a freshly constructed engine
Searching ==
    /\ pc = "ready"
    /\ SearchingBegins

\* one iteration of the while loop of searching()
Expand ==
    /\ pc = "loop"
    /\ IF alg = "DFS" THEN stack # <<>> ELSE OPEN # <<>>
    /\ IF alg = "DFS"
       THEN LET st == DFSIterate([stack |-> stack, visited |-> visited,
                                  PARENT |-> PARENT, g |-> g, CLOSED |-> CLOSED])
            IN  /\ stack' = st.stack
                /\ visited' = st.visited
                /\ PARENT' = st.PARENT
                /\ g' = st.g
                /\ CLOSED' = st.CLOSED
                /\ OPEN' = OPEN
       ELSE LET st == Iterate(Frame(g, PARENT, OPEN, CLOSED), heuristic_weight)
            IN  /\ g' = st.g
                /\ PARENT' = st.PARENT
                /\ OPEN' = st.OPEN
                /\ CLOSED' = st.CLOSED
                /\ UNCHANGED <<stack, visited>>
    /\ pc' = IF CLOSED'[Len(CLOSED')] = s_goal THEN "found" ELSE "loop"
    /\ UNCHANGED <<config, loc, done, path, calls, ret1, anytime>>

\* the loop has ended (break at the goal, or the container is empty):
\* return self.extract_path(self.PARENT), self.CLOSED
Return ==
    /\ \/ pc = "found"
       \/ pc = "loop" /\ (IF alg = "DFS" THEN stack = <<>> ELSE OPEN = <<>>)
    /\ done' = IF pc = "found" THEN "success" ELSE "exhausted"
    /\ LET r == extract_path(PARENT) IN
          /\ pc' = CASE r.kind = "ok" -> "returned"
                     [] r.kind = "KeyError" -> "raised"
                     [] OTHER -> "hung"
          /\ path' = IF r.kind = "ok" THEN r.path ELSE <<>>
    /\ UNCHANGED <<config, OPEN, CLOSED, PARENT, g, stack, visited, loc,
                   calls, ret1, anytime>>

Next == Searching \/ Expand \/ Return

AllAlgs == {"AStar", "Dijkstra", "BFS", "DFS"}

\* every variant on every small grid
Init ==
    Constructed(GridW, GridH, AllAlgs, {"euclidean"}, {0, 2, MaxWeight2},
                MaxObs, 0, TerrainTiers)

Spec == Init /\ [][Next]_vars

\* the Dijkstra variant with a terrain overlay
InitDijkstra ==
    Constructed(GridW, GridH, {"Dijkstra"}, {}, {}, MaxObs, MaxTerrain,
                TerrainTiers)

SpecDijkstra == InitDijkstra /\ [][Next]_vars

\* the breadth-first variant on obstacle-free grids
InitBFSFree ==
    \E w \in 1..FreeW, h \in 1..FreeH :
        Constructed(w, h, {"BFS"}, {}, {}, 0, 0, TerrainTiers)

SpecBFSFree == InitBFSFree /\ [][Next]_vars

\* searching() is called a second time on an engine whose first call returned
SearchingAgain ==
    /\ pc = "returned"
    /\ calls = 1
    /\ ret1 = <<>>
    /\ ret1' = <<path, CLOSED>>
    /\ calls' = calls + 1
    /\ done' = "none"
    /\ pc' = "loop"
    /\ PARENT' = Put(PARENT, s_start, s_start)
    /\ CLOSED' = CLOSED
    /\ IF alg = "DFS"
       THEN /\ g' = Put(g, s_start, 0)
            /\ stack' = <<s_start>>
            /\ visited' = {s_start}
            /\ OPEN' = OPEN
       ELSE /\ g' = Put(Put(g, s_start, 0), s_goal, Inf)
            /\ OPEN' = HeapPush(OPEN,
                          <<IF alg = "AStar" THEN f_value(g', s_start) ELSE 0,
                            s_start>>)
            /\ UNCHANGED <<stack, visited>>
    /\ UNCHANGED <<config, loc, path, anytime>>

NextTwice == Next \/ SearchingAgain

InitTwice ==
    Constructed(GridW, GridH, AllAlgs, {"euclidean"}, {2}, MaxObsAStar, 0,
                TerrainTiers)

SpecTwice == InitTwice /\ [][NextTwice]_vars

\* the while loop can run another iteration: the container is not empty and
\* no break was taken; the iterations a call sequence may take are capped
LoopCanRun ==
    /\ pc = "loop"
    /\ IF alg = "DFS" THEN stack # <<>> ELSE OPEN # <<>>
    /\ Len(CLOSED) < MaxIterations

ExpandWithin == LoopCanRun /\ Expand

\* what every iteration does first: it appends the popped coordinate to CLOSED
LoopIterates ==
    /\ LoopCanRun
    /\ \E s \in {c[1] : c \in obs} \X {c[2] : c \in obs} :
           CLOSED' = Append(CLOSED, s)

NextTermination == Searching \/ ExpandWithin \/ Return \/ SearchingAgain

\* every variant, called once or twice; a loop that can iterate does iterate
InitTermination ==
    Constructed(GridW, GridH, AllAlgs, {"euclidean"}, {0, 2, MaxWeight2},
                MaxObsAStar, 0, TerrainTiers)

SpecTermination ==
    InitTermination /\ [][NextTermination]_vars /\ WF_CLOSED(LoopIterates)

\* a loop that ended with the container empty and left any parent map that
\* has no entry for s_goal
InitExtract ==
    /\ obs = Border(ParentW, ParentH)
    /\ s_start \in Interior(ParentW, ParentH)
    /\ s_goal \in Interior(ParentW, ParentH)
    /\ terrain_cost = EmptyDict
    /\ alg = "AStar"
    /\ heuristic_type = "euclidean"
    /\ heuristic_weight = 2
    /\ u_set = Motions8
    /\ OPEN = <<>>
    /\ CLOSED = <<>>
    /\ \E keys \in SUBSET (Interior(ParentW, ParentH) \ {s_goal}) :
          PARENT \in [keys -> Interior(ParentW, ParentH)]
    /\ g = EmptyDict
    /\ stack = <<>>
    /\ visited = {}
    /\ loc = <<>>
    /\ pc = "loop"
    /\ done = "none"
    /\ path = <<>>
    /\ calls = 1
    /\ ret1 = <<>>
    /\ anytime = <<>>
    /\ rng = 0
    /\ terrain_colors = ColorsOf(terrain_cost)
    /\ terrain_loc = <<>>

SpecExtract == InitExtract /\ [][Return]_vars

\* the four orthogonal offsets in the order AStar's u_set lists them
Motions8Orthogonal == << <<-1, 0>>, <<0, 1>>, <<1, 0>>, <<0, -1>> >>

\* after a Dijkstra engine has returned, an AStar engine with weight 0 and
\* its u_set restricted to the orthogonal offsets is constructed for the same
\* start, goal and Environment; seed 42 gives it the same overlay
ConstructAStarOrthogonal ==
    /\ alg = "Dijkstra"
    /\ pc = "returned"
    /\ ret1' = <<path, CLOSED>>
    /\ alg' = "AStar"
    /\ heuristic_type' = "euclidean"
    /\ heuristic_weight' = 0
    /\ u_set' \in {Motions4, Motions8Orthogonal}
    /\ OPEN' = <<>>
    /\ CLOSED' = <<>>
    /\ PARENT' = EmptyDict
    /\ g' = EmptyDict
    /\ pc' = "ready"
    /\ done' = "none"
    /\ path' = <<>>
    /\ calls' = 0
    /\ UNCHANGED <<obs, terrain_cost, s_start, s_goal, stack, visited, loc,
                   anytime, rng, terrain_colors, terrain_loc>>

NextEquiv == Next \/ ConstructAStarOrthogonal

InitEquiv ==
    Constructed(GridW, GridH, {"Dijkstra"}, {}, {}, MaxObsAStar, MaxTerrain,
                TerrainTiers)

SpecEquiv == InitEquiv /\ [][NextEquiv]_vars

\* --------------------------------------------------- repeated_searching
\* the locals of repeated_searching(s_start, s_goal, e) before its loop; e
\* is the doubled weight
FreshLocals(e) ==
    LET g0 == Put(Put(EmptyDict, s_start, 0), s_goal, Inf) IN
    [g |-> g0,
     PARENT |-> Put(EmptyDict, s_start, s_start),
     OPEN |-> HeapPush(<<>>, <<Weighted(g0[s_start], e, s_start), s_start>>),
     CLOSED |-> <<>>,
     e |-> e]

\* repeated_searching(self.s_start, self.s_goal, e) is called on a fresh
\* AStar engine with e = self.heuristic_weight: its g, PARENT, OPEN and
\* CLOSED are locals
RepeatedSearching ==
    /\ pc = "ready"
    /\ alg = "AStar"
    /\ loc' = FreshLocals(heuristic_weight)
    /\ pc' = "rloop"
    /\ UNCHANGED <<config, OPEN, CLOSED, PARENT, g, stack, visited, done,
                   path, calls, ret1, anytime>>

\* one iteration of the while loop of repeated_searching
RepeatedExpand ==
    /\ pc = "rloop"
    /\ loc.OPEN # <<>>
    /\ LET st == Iterate(Frame(loc.g, loc.PARENT, loc.OPEN, loc.CLOSED), loc.e)
       IN  /\ loc' = [g |-> st.g, PARENT |-> st.PARENT, OPEN |-> st.OPEN,
                      CLOSED |-> st.CLOSED, e |-> loc.e]
           /\ pc' = IF st.CLOSED[Len(st.CLOSED)] = s_goal THEN "rfound" ELSE "rloop"
    /\ UNCHANGED <<config, OPEN, CLOSED, PARENT, g, stack, visited, done,
                   path, calls, ret1, anytime>>

\* return self.extract_path(PARENT), CLOSED
RepeatedReturn ==
    /\ \/ pc = "rfound"
       \/ pc = "rloop" /\ loc.OPEN = <<>>
    /\ done' = IF pc = "rfound" THEN "success" ELSE "exhausted"
    /\ LET r == extract_path(loc.PARENT) IN
          /\ pc' = CASE r.kind = "ok" -> "returned"
                     [] r.kind = "KeyError" -> "raised"
                     [] OTHER -> "hung"
          /\ path' = IF r.kind = "ok" THEN r.path ELSE <<>>
    /\ UNCHANGED <<config, OPEN, CLOSED, PARENT, g, stack, visited, loc,
                   calls, ret1, anytime>>

NextRepeated == Next \/ RepeatedSearching \/ RepeatedExpand \/ RepeatedReturn

\* AStar with an admissible, consistent heuristic term: w <= 1 with the
\* Euclidean distance, w = 0.5 with the Manhattan distance
InitAStarOptimal ==
    /\ Constructed(GridW, GridH, {"AStar"}, {"euclidean", "manhattan"},
                   {0, 1, 2}, MaxObsAStar, MaxTerrain, CoarseTiers)
    /\ heuristic_type = "manhattan" => heuristic_weight = 1

SpecAStarOptimal == InitAStarOptimal /\ [][Next]_vars

\* weighted AStar, w > 1, with the Euclidean distance
InitWeighted ==
    Constructed(GridW, GridH, {"AStar"}, {"euclidean"}, 3..MaxWeight2,
                MaxObsAStar, MaxTerrain, CoarseTiers)

SpecWeighted == InitWeighted /\ [][NextRepeated]_vars

\* ---------------------------------------------- searching_repeated_astar
\* searching_repeated_astar(e) is called on a fresh AStar engine; e is the
\* doubled weight: path, visited = [], []
AnytimeBegins ==
    /\ pc = "ready"
    /\ alg = "AStar"
    /\ \E e \in {1, 2, MaxWeight2} :
          anytime' = [e |-> e, path |-> <<>>, visited |-> <<>>]
    /\ pc' = "awhile"
    /\ UNCHANGED <<config, OPEN, CLOSED, PARENT, g, stack, visited, loc, done,
                   path, calls, ret1>>

\* while e >= 1: repeated_searching(self.s_start, self.s_goal, e) is entered
AnytimeRun ==
    /\ pc = "awhile"
    /\ anytime.e >= 2
    /\ loc' = FreshLocals(anytime.e)
    /\ pc' = "rloop"
    /\ UNCHANGED <<config, OPEN, CLOSED, PARENT, g, stack, visited, done,
                   path, calls, ret1, anytime>>

\* repeated_searching has returned p_k, v_k: path.append(p_k),
\* visited.append(v_k), e -= 0.5
AnytimeCollect ==
    /\ pc = "returned"
    /\ anytime # <<>>
    /\ anytime' = [e |-> anytime.e - 1,
                   path |-> Append(anytime.path, path),
                   visited |-> Append(anytime.visited, loc.CLOSED)]
    /\ pc' = "awhile"
    /\ UNCHANGED <<config, OPEN, CLOSED, PARENT, g, stack, visited, loc, done,
                   path, calls, ret1>>

\* the while loop has ended: return path, visited
AnytimeReturn ==
    /\ pc = "awhile"
    /\ anytime.e < 2
    /\ pc' = "adone"
    /\ UNCHANGED <<config, OPEN, CLOSED, PARENT, g, stack, visited, loc, done,
                   path, calls, ret1, anytime>>

NextAnytime ==
    \/ AnytimeBegins
    \/ AnytimeRun
    \/ RepeatedExpand
    \/ RepeatedReturn
    \/ AnytimeCollect
    \/ AnytimeReturn

InitAnytime ==
    Constructed(GridW, GridH, {"AStar"}, {"euclidean"}, {2}, MaxObsAStar,
                MaxTerrain, CoarseTiers)

SpecAnytime == InitAnytime /\ [][NextAnytime]_vars

\* ----------------------------------------------------- terrain generation
\* The generator of random is a function of its state: a draw returns a value
\* determined by the state and moves to the next state.
NextRng(r) == (5 * r + 3) % RngMod

\* random.choice(seq) drawn in state r; the state after it is NextRng(r)
Choice(seq, r) == seq[((NextRng(r) * Len(seq)) \div RngMod) + 1]

\* a construction that leaves the generator as it found it
NotSeeded(r) == r

\* random.seed(42) called in state r
Seeded(r) == SeedValue % RngMod

\* the offsets (dx, dy) with |dx| + |dy| = distance, in the order of the two
\* for loops of _set_surrounding_costs
RECURSIVE RingFrom(_)
RingFrom(dx) ==
    IF dx > RingDistance THEN <<>>
    ELSE LET r == RingDistance - Abs(dx) IN
         (IF r = 0 THEN << <<dx, 0>> >> ELSE << <<dx, -r>>, <<dx, r>> >>)
             \o RingFrom(dx + 1)

RingOffsets == RingFrom(-RingDistance)

\* _set_surrounding_costs on self = [obs, s_start, s_goal, terrain_cost,
\* terrain_colors, rng], from the i-th offset
RECURSIVE SetSurroundingFrom(_, _, _)
SetSurroundingFrom(self, center, i) ==
    IF i > Len(RingOffsets) THEN self
    ELSE LET node == <<center[1] + RingOffsets[i][1],
                       center[2] + RingOffsets[i][2]>>
         IN  IF /\ node \notin self.obs
                /\ node # self.s_start
                /\ node # self.s_goal
             THEN LET drawn == Choice(<<2, 3, 4, 5>>, self.rng) IN
                  SetSurroundingFrom(
                      [self EXCEPT
                          !.terrain_cost = Put(@, node, drawn),
                          !.terrain_colors = Put(@, node, color_map[drawn]),
                          !.rng = NextRng(@)], center, i + 1)
             ELSE SetSurroundingFrom(self, center, i + 1)

set_surrounding_costs(self, center) == SetSurroundingFrom(self, center, 1)

\* list(x_range), list(y_range): a sub-rectangle of the interior
RegionXs == [i \in 1..(GridW - 1) |-> i + 1]
RegionYs == [i \in 1..GridH |-> i]

\* terrain_types: (multiplier, colour) of the four tiers, in order
terrain_types == << <<2, "red">>, <<3, "yellow">>, <<4, "blue">>,
                    <<5, "green">> >>

\* a while loop that only stops when the tier is full
TierLoopRunsUncounted(placed, attempts) == placed < TierTarget

\* the condition of the while loop of a tier
TierLoopRuns(placed, attempts) ==
    placed < TierTarget /\ attempts < MaxAttempts

\* a loop body that does not skip coordinates that already have a multiplier
TierAttemptOverwriting(self, cost_value, color, placed, attempts) ==
    LET x == Choice(RegionXs, self.rng)
        r1 == NextRng(self.rng)
        y == Choice(RegionYs, r1)
        r2 == NextRng(r1)
        node == <<x, y>>
    IN  IF /\ node # self.s_start
           /\ node # self.s_goal
           /\ node \notin self.obs
        THEN [self |-> [self EXCEPT
                           !.terrain_cost = Put(@, node, cost_value),
                           !.terrain_colors = Put(@, node, color),
                           !.rng = r2],
              placed |-> placed + 1, attempts |-> attempts + 1]
        ELSE [self |-> [self EXCEPT !.rng = r2],
              placed |-> placed, attempts |-> attempts + 1]

\* a loop body that places on the start, the goal and blocked coordinates too
TierAttemptAnywhere(self, cost_value, color, placed, attempts) ==
    LET x == Choice(RegionXs, self.rng)
        r1 == NextRng(self.rng)
        y == Choice(RegionYs, r1)
        r2 == NextRng(r1)
        node == <<x, y>>
    IN  IF node \notin DOMAIN self.terrain_cost
        THEN [self |-> [self EXCEPT
                           !.terrain_cost = Put(@, node, cost_value),
                           !.terrain_colors = Put(@, node, color),
                           !.rng = r2],
              placed |-> placed + 1, attempts |-> attempts + 1]
        ELSE [self |-> [self EXCEPT !.rng = r2],
              placed |-> placed, attempts |-> attempts + 1]

\* one iteration of the while loop of a tier: the engine and the two
\* counters after it
TierAttempt(self, cost_value, color, placed, attempts) ==
    LET x == Choice(RegionXs, self.rng)
        r1 == NextRng(self.rng)
        y == Choice(RegionYs, r1)
        r2 == NextRng(r1)
        node == <<x, y>>
    IN  IF /\ node \notin DOMAIN self.terrain_cost
           /\ node # self.s_start
           /\ node # self.s_goal
           /\ node \notin self.obs
        THEN [self |-> [self EXCEPT
                           !.terrain_cost = Put(@, node, cost_value),
                           !.terrain_colors = Put(@, node, color),
                           !.rng = r2],
              placed |-> placed + 1, attempts |-> attempts + 1]
        ELSE [self |-> [self EXCEPT !.rng = r2],
              placed |-> placed, attempts |-> attempts + 1]

\* the while loop of _initialize_terrain for one tier
RECURSIVE PlaceTier(_, _, _, _, _)
PlaceTier(self, cost_value, color, placed, attempts) ==
    IF TierLoopRuns(placed, attempts)
    THEN LET it == TierAttempt(self, cost_value, color, placed, attempts)
         IN  PlaceTier(it.self, cost_value, color, it.placed, it.attempts)
    ELSE self

\* the for loop over terrain_types
RECURSIVE PlaceTiersFrom(_, _)
PlaceTiersFrom(self, k) ==
    IF k > Len(terrain_types) THEN self
    ELSE PlaceTiersFrom(PlaceTier(self, terrain_types[k][1],
                                  terrain_types[k][2], 0, 0), k + 1)

\* _initialize_terrain
initialize_terrain(self) ==
    LET around_start == set_surrounding_costs(self, self.s_start)
        around_goal == set_surrounding_costs(around_start, self.s_goal)
    IN  PlaceTiersFrom(around_goal, 1)

\* __init__ of an engine on obstacles o from s to t, run with the generator
\* in state r: random.seed(42), self.terrain_cost = {},
\* self.terrain_colors = {}, self._initialize_terrain()
GenerateTerrain(o, s, t, r) ==
    initialize_terrain([obs |-> o, s_start |-> s, s_goal |-> t,
                        terrain_cost |-> EmptyDict,
                        terrain_colors |-> EmptyDict, rng |-> Seeded(r)])

\* an engine constructed, overlay included, while the generator is in any
\* state
ConstructedWithTerrain(w, h, algs, mo) ==
    /\ \E o \in SUBSET Interior(w, h), s \in Interior(w, h),
          t \in Interior(w, h), r \in 0..(RngMod - 1) :
          LET gen == GenerateTerrain(Border(w, h) \cup o, s, t, r) IN
          /\ Cardinality(o) <= mo
          /\ obs = gen.obs
          /\ s_start = s
          /\ s_goal = t
          /\ terrain_cost = gen.terrain_cost
          /\ terrain_colors = gen.terrain_colors
          /\ rng = gen.rng
    /\ alg \in algs
    /\ heuristic_type = (IF alg = "AStar" THEN "euclidean" ELSE "None")
    /\ heuristic_weight = 2
    /\ u_set = (IF alg = "AStar" THEN Motions8 ELSE Motions4)
    /\ OPEN = <<>>
    /\ CLOSED = <<>>
    /\ PARENT = EmptyDict
    /\ g = EmptyDict
    /\ stack = <<>>
    /\ visited = {}
    /\ loc = <<>>
    /\ pc = "ready"
    /\ done = "none"
    /\ path = <<>>
    /\ calls = 0
    /\ ret1 = <<>>
    /\ anytime = <<>>
    /\ terrain_loc = <<>>

\* another user of the generator draws from it
OtherDraw ==
    /\ rng' = NextRng(rng)
    /\ UNCHANGED <<obs, terrain_cost, alg, s_start, s_goal, heuristic_type,
                   heuristic_weight, u_set, OPEN, CLOSED, PARENT, g, stack,
                   visited, loc, pc, done, path, calls, ret1, anytime,
                   terrain_colors, terrain_loc>>

\* a second engine of the same class is constructed for the same start, goal
\* and Environment; ret1 keeps the first engine's overlay and the state the
\* generator was in
ConstructSame ==
    /\ pc = "ready"
    /\ ret1 = <<>>
    /\ ret1' = <<terrain_cost, rng>>
    /\ LET gen == GenerateTerrain(obs, s_start, s_goal, rng) IN
          /\ terrain_cost' = gen.terrain_cost
          /\ terrain_colors' = gen.terrain_colors
          /\ rng' = gen.rng
    /\ UNCHANGED <<obs, alg, s_start, s_goal, heuristic_type,
                   heuristic_weight, u_set, OPEN, CLOSED, PARENT, g, stack,
                   visited, loc, pc, done, path, calls, anytime, terrain_loc>>

NextTerrain == OtherDraw \/ ConstructSame

InitTerrain ==
    ConstructedWithTerrain(GridW, GridH, {"AStar", "Dijkstra"}, MaxObsAStar)

SpecTerrain == InitTerrain /\ [][NextTerrain]_vars

\* ---------------------------------------------- construction, step by step
\* the engine under construction, as _initialize_terrain sees it
Self ==
    [obs |-> obs, s_start |-> s_start, s_goal |-> s_goal,
     terrain_cost |-> terrain_cost, terrain_colors |-> terrain_colors,
     rng |-> rng]

\* __init__ up to the call of _initialize_terrain: the generator is seeded,
\* both dictionaries are empty
BeforeTerrain(w, h, algs, mo) ==
    /\ \E o \in SUBSET Interior(w, h) :
          /\ Cardinality(o) <= mo
          /\ obs = Border(w, h) \cup o
    /\ s_start \in Interior(w, h)
    /\ s_goal \in Interior(w, h)
    /\ terrain_cost = EmptyDict
    /\ terrain_colors = EmptyDict
    /\ \E r \in 0..(RngMod - 1) : rng = Seeded(r)
    /\ alg \in algs
    /\ heuristic_type = (IF alg = "AStar" THEN "euclidean" ELSE "None")
    /\ heuristic_weight = 2
    /\ u_set = (IF alg = "AStar" THEN Motions8 ELSE Motions4)
    /\ OPEN = <<>>
    /\ CLOSED = <<>>
    /\ PARENT = EmptyDict
    /\ g = EmptyDict
    /\ stack = <<>>
    /\ visited = {}
    /\ loc = <<>>
    /\ pc = "ring_start"
    /\ done = "none"
    /\ path = <<>>
    /\ calls = 0
    /\ ret1 = <<>>
    /\ anytime = <<>>
    /\ terrain_loc = <<>>

\* self._set_surrounding_costs(self.s_start, distance=3)
RingAroundStart ==
    /\ pc = "ring_start"
    /\ LET after == set_surrounding_costs(Self, s_start) IN
          /\ terrain_cost' = after.terrain_cost
          /\ terrain_colors' = after.terrain_colors
          /\ rng' = after.rng
    /\ pc' = "ring_goal"
    /\ UNCHANGED <<obs, alg, s_start, s_goal, heuristic_type,
                   heuristic_weight, u_set, OPEN, CLOSED, PARENT, g, stack,
                   visited, loc, done, path, calls, ret1, anytime,
                   terrain_loc>>

\* self._set_surrounding_costs(self.s_goal, distance=3), and the for loop
\* over terrain_types is entered
RingAroundGoal ==
    /\ pc = "ring_goal"
    /\ LET after == set_surrounding_costs(Self, s_goal) IN
          /\ terrain_cost' = after.terrain_cost
          /\ terrain_colors' = after.terrain_colors
          /\ rng' = after.rng
    /\ pc' = "tiers"
    /\ terrain_loc' = [k |-> 1, placed |-> 0, attempts |-> 0]
    /\ UNCHANGED <<obs, alg, s_start, s_goal, heuristic_type,
                   heuristic_weight, u_set, OPEN, CLOSED, PARENT, g, stack,
                   visited, loc, done, path, calls, ret1, anytime>>

\* one iteration of the while loop of the k-th tier
TierIterates ==
    /\ pc = "tiers"
    /\ terrain_loc.attempts < MaxAttemptsFollowed
    /\ TierLoopRuns(terrain_loc.placed, terrain_loc.attempts)
    /\ LET it == TierAttempt(Self, terrain_types[terrain_loc.k][1],
                             terrain_types[terrain_loc.k][2],
                             terrain_loc.placed, terrain_loc.attempts)
       IN  /\ terrain_cost' = it.self.terrain_cost
           /\ terrain_colors' = it.self.terrain_colors
           /\ rng' = it.self.rng
           /\ terrain_loc' = [terrain_loc EXCEPT !.placed = it.placed,
                                                 !.attempts = it.attempts]
    /\ UNCHANGED <<obs, alg, s_start, s_goal, heuristic_type,
                   heuristic_weight, u_set, OPEN, CLOSED, PARENT, g, stack,
                   visited, loc, pc, done, path, calls, ret1, anytime>>

\* the while loop of the k-th tier is left: the next tier begins, or
\* _initialize_terrain and __init__ return
TierEnds ==
    /\ pc = "tiers"
    /\ ~TierLoopRuns(terrain_loc.placed, terrain_loc.attempts)
    /\ IF terrain_loc.k < Len(terrain_types)
       THEN /\ terrain_loc' = [k |-> terrain_loc.k + 1, placed |-> 0,
                               attempts |-> 0]
            /\ pc' = pc
       ELSE /\ terrain_loc' = <<>>
            /\ pc' = "ready"
    /\ UNCHANGED <<obs, terrain_cost, terrain_colors, rng, alg, s_start,
                   s_goal, heuristic_type, heuristic_weight, u_set, OPEN,
                   CLOSED, PARENT, g, stack, visited, loc, done, path, calls,
                   ret1, anytime>>

\* the steps of _initialize_terrain
NextInitialize ==
    RingAroundStart \/ RingAroundGoal \/ TierIterates \/ TierEnds

\* the constructor, and the searches on the engine it returns
NextConstruct == NextInitialize \/ Next

InitConstruct ==
    BeforeTerrain(GridW, GridH, {"AStar", "Dijkstra"}, MaxObsAStar)

SpecConstruct == InitConstruct /\ [][NextConstruct]_vars

\* the constructor alone; it runs to its end on the caller's thread, so a
\* step of a tier loop that can be taken is taken
SpecInitialize ==
    /\ InitConstruct
    /\ [][NextInitialize]_vars
    /\ WF_<<pc, terrain_loc>>(TierIterates \/ TierEnds)

\* ---------------------------------------------------------------- rendering
\* list.remove(x): the list without the first occurrence of x
ListRemove(list, x) ==
    LET i == CHOOSE j \in 1..Len(list) :
                 list[j] = x /\ \A k \in 1..(j - 1) : list[k] # x
    IN  SubSeq(list, 1, i - 1) \o SubSeq(list, i + 1, Len(list))

InList(list, x) == \E j \in 1..Len(list) : list[j] = x

\* Plotting.plot_visited: the list its argument is after the call
plot_visited(list) ==
    LET v1 == IF InList(list, s_start) THEN ListRemove(list, s_start)
              ELSE list
    IN  IF InList(v1, s_goal) THEN ListRemove(v1, s_goal) ELSE v1

\* the demo's plot.animation(path, visited, ...) with the two values
\* searching() returned, on a Plotting built for the engine's start and goal;
\* visited is the list object self.CLOSED
Animation ==
    /\ pc = "returned"
    /\ CLOSED' = plot_visited(CLOSED)
    /\ pc' = "plotted"
    /\ UNCHANGED <<config, OPEN, PARENT, g, stack, visited, loc, done, path,
                   calls, ret1, anytime>>

NextPlot == Next \/ Animation

InitPlot ==
    Constructed(GridW, GridH, AllAlgs, {"euclidean"}, {2}, MaxObsAStar, 0,
                TerrainTiers)

SpecPlot == InitPlot /\ [][NextPlot]_vars

\* ------------------------------------------------ measures of the claims
\* the grid: the bounding box of the obstacles (the border is blocked)
GridCells ==
    LET xs == {c[1] : c \in obs}
        ys == {c[2] : c \in obs}
    IN  {c \in xs \X ys : TRUE}

FreeCells == GridCells \ obs

Offsets == {u_set[i] : i \in 1..Len(u_set)}

SetMin(S) == CHOOSE m \in S : \A x \in S : m <= x

\* exhaustive search: the cheapest cost of reaching every free cell from
\* s_start by moves of u_set, by relaxing every edge until nothing changes
RECURSIVE Cheapest(_, _)
Cheapest(d, k) ==
    LET d2 == [c \in FreeCells |->
                 SetMin({d[c]} \cup
                        {Plus(d[n], cost(n, c)) :
                           n \in {<<c[1] - u[1], c[2] - u[2]>> : u \in Offsets}
                                    \cap FreeCells})]
    IN  IF k = 0 \/ d2 = d THEN d ELSE Cheapest(d2, k - 1)

MinCostTo(c) ==
    IF s_start \in obs \/ c \in obs THEN Inf
    ELSE Cheapest([x \in FreeCells |-> IF x = s_start THEN 0 ELSE Inf],
                  Cardinality(FreeCells))[c]

\* the summed edge cost of a goal-to-start path: each path[i+1] is the
\* predecessor of path[i]
RECURSIVE SumFrom(_, _)
SumFrom(p, i) ==
    IF i >= Len(p) THEN 0 ELSE Plus(cost(p[i + 1], p[i]), SumFrom(p, i + 1))

PathCost(p) == SumFrom(p, 1)

Reverse(p) == [i \in 1..Len(p) |-> p[Len(p) + 1 - i]]

\* a start-to-goal sequence of valid unblocked moves
ValidRoute(r) ==
    /\ Len(r) >= 1
    /\ r[1] = s_start
    /\ r[Len(r)] = s_goal
    /\ \A i \in 1..(Len(r) - 1) :
          /\ <<r[i + 1][1] - r[i][1], r[i + 1][2] - r[i][2]>> \in Offsets
          /\ ~is_collision(r[i], r[i + 1])

Finished == pc \in {"returned", "raised", "hung"}

\* --------------------------------------------------------------- claims
\* C1: Dijkstra variant: for every grid, overlay, start and goal with the
\* goal reachable, when searching() returns, the summed edge cost of the
\* returned path equals the minimum total cost over all unblocked
\* 4-directional paths from start to goal.
C1_DijkstraReturnsMinimumCost ==
    (alg = "Dijkstra" /\ Finished) =>
        LET m == MinCostTo(s_goal) IN
        m < Inf => (pc = "returned" /\ PathCost(path) = m)

\* C1 holds of every search whose start and goal differ
C1_MinimumCostDistinctEndpoints ==
    (alg = "Dijkstra" /\ Finished /\ s_start # s_goal) =>
        LET m == MinCostTo(s_goal) IN
        m < Inf => (pc = "returned" /\ PathCost(path) = m)

\* a cost-5 corridor cell lies between start and goal and the returned path
\* is a strictly cheaper detour around it
C1_DetourTaken ==
    /\ alg = "Dijkstra" /\ pc = "returned"
    /\ s_start = <<1, 1>> /\ s_goal = <<3, 1>>
    /\ obs \cap Interior(GridW, GridH) = {}
    /\ get_terrain_cost(<<2, 1>>) = 5
    /\ \A i \in 1..Len(path) : path[i] # <<2, 1>>
    /\ PathCost(path) < 5 + 1

\* C3: for every variant and every successful search, the returned path,
\* reversed, starts at start, ends at goal, and every consecutive pair is one
\* offset of the variant's neighbour set apart and not a collision.
C3_ReturnedPathIsValidRoute ==
    (pc = "returned" /\ done = "success") => ValidRoute(Reverse(path))

\* C3 holds of every successful search whose start and goal differ
C3_ValidRouteDistinctEndpoints ==
    (pc = "returned" /\ done = "success" /\ s_start # s_goal)
        => ValidRoute(Reverse(path))

\* C4: when the open container empties before the goal has been popped,
\* searching() does not raise: it returns, with an empty path.
C4_ExhaustionReturns ==
    done = "exhausted" => (pc = "returned" /\ path = <<>>)

\* what the code does on exhaustion: extract_path raises KeyError
C4_ExhaustionRaises ==
    done = "exhausted" => pc = "raised"

\* C5: an engine whose start or goal is blocked never executes a search
\* step: nothing is pushed, popped, appended to CLOSED or relaxed.
C5_BlockedEndpointsNeverSearched ==
    (s_start \in obs \/ s_goal \in obs)
        => (OPEN = <<>> /\ CLOSED = <<>> /\ g = EmptyDict /\ PARENT = EmptyDict)

Manhattan(a, b) == Abs(a[1] - b[1]) + Abs(a[2] - b[2])

\* C7: BFS on an obstacle-free grid: along CLOSED the g values are
\* non-decreasing, and every coordinate at Manhattan distance k from start
\* comes before every coordinate at distance k+1.
C7_BFSClosedIsLayered ==
    (alg = "BFS" /\ Finished) =>
        \A i \in 1..Len(CLOSED), j \in 1..Len(CLOSED) :
            i < j =>
               /\ g[CLOSED[i]] <= g[CLOSED[j]]
               /\ Manhattan(s_start, CLOSED[i]) # Manhattan(s_start, CLOSED[j]) + 1

\* C8: BFS on an obstacle-free grid: when the goal is popped g[goal] is the
\* Manhattan distance from start to goal, and the returned path has that
\* distance plus one coordinates.
C8_BFSGoalAtManhattanDistance ==
    /\ (alg = "BFS" /\ pc = "found") => g[s_goal] = Manhattan(s_start, s_goal)
    /\ (alg = "BFS" /\ pc = "returned")
          => /\ g[s_goal] = Manhattan(s_start, s_goal)
             /\ Len(path) = Manhattan(s_start, s_goal) + 1

\* C8 holds of every search whose start and goal differ
C8_ManhattanDistinctEndpoints ==
    (alg = "BFS" /\ pc \in {"found", "returned"} /\ s_start # s_goal)
        => /\ g[s_goal] = Manhattan(s_start, s_goal)
           /\ pc = "returned" => Len(path) = Manhattan(s_start, s_goal) + 1

\* C10: calling searching() twice in a row on the same engine returns the
\* same path and the same closed sequence both times.
C10_SecondCallReturnsTheSame ==
    (calls = 2 /\ pc = "returned") => (path = ret1[1] /\ CLOSED = ret1[2])

\* C6: for every grid, overlay, start and reachable goal, the AStar engine
\* with weight 0 and the orthogonal offsets returns the same path and the
\* same closed sequence as the Dijkstra variant.
C6_AStarWeightZeroEqualsDijkstra ==
    (alg = "AStar" /\ ret1 # <<>> /\ Finished)
        => (pc = "returned" /\ path = ret1[1] /\ CLOSED = ret1[2])

\* both engines returned a path longer than one move that avoids an overlay
\* coordinate
C6_BothReturned ==
    /\ alg = "AStar" /\ ret1 # <<>> /\ pc = "returned"
    /\ Len(path) > 3
    /\ terrain_cost # EmptyDict
    /\ PathCost(path) < 1000000 * (Len(path) - 1) + 1
    /\ u_set = Motions8Orthogonal

\* C2: AStar with weight w <= 1 and an admissible, consistent heuristic: for
\* every grid and every reachable goal, the total edge cost of the returned
\* path equals the minimum cost found by exhaustive search.
C2_AStarReturnsMinimumCost ==
    (alg = "AStar" /\ Finished) =>
        LET m == MinCostTo(s_goal) IN
        m < Inf => (pc = "returned" /\ PathCost(path) = m)

\* with w = 1 a path with a diagonal move has been returned on a grid with an
\* obstacle and an overlay coordinate, cheaper than every orthogonal route
C2_DiagonalPathReturned ==
    /\ alg = "AStar" /\ pc = "returned" /\ heuristic_weight = 2
    /\ heuristic_type = "euclidean"
    /\ terrain_cost # EmptyDict
    /\ obs \cap Interior(GridW, GridH) # {}
    /\ Len(path) >= 3
    /\ PathCost(path) < 1000000 * Manhattan(s_start, s_goal)

\* C9: weighted AStar, w > 1 with a consistent heuristic, in searching() and
\* in repeated_searching with e = w: for every grid and reachable goal the
\* total edge cost of the returned path is at most w times the minimum cost.
C9_WeightedWithinBound ==
    (alg = "AStar" /\ Finished) =>
        LET m == MinCostTo(s_goal) IN
        m < Inf => /\ pc = "returned"
                   /\ 2 * PathCost(path) <= heuristic_weight * m

\* searching() has returned a path that costs more than the minimum
C9_SuboptimalFromSearching ==
    /\ alg = "AStar" /\ pc = "returned" /\ loc = <<>>
    /\ PathCost(path) > MinCostTo(s_goal)

\* repeated_searching has returned a path that costs more than the minimum
C9_SuboptimalFromRepeated ==
    /\ alg = "AStar" /\ pc = "returned" /\ loc # <<>>
    /\ PathCost(path) > MinCostTo(s_goal)

\* a single weighted search with doubled weight w2 run from an empty state
\* to the end of its loop, and what it returns
RECURSIVE RunLoop(_, _)
RunLoop(st, w2) ==
    IF st.OPEN = <<>> THEN st
    ELSE LET st2 == Iterate(st, w2) IN
         IF st2.CLOSED[Len(st2.CLOSED)] = s_goal THEN st2 ELSE RunLoop(st2, w2)

Standalone(w2) ==
    LET st == RunLoop(FreshLocals(w2), w2)
        r == extract_path(st.PARENT)
    IN  [kind |-> r.kind, path |-> r.path, closed |-> st.CLOSED]

\* the runs searching_repeated_astar has collected are those of the weights
\* e, e - 0.5, ... in that order, each equal to the standalone search
AnytimeRunsMatch ==
    LET e0 == anytime.e + Len(anytime.path) IN
    /\ Len(anytime.visited) = Len(anytime.path)
    /\ \A k \in 1..Len(anytime.path) :
          LET sa == Standalone(e0 - (k - 1)) IN
          /\ e0 - (k - 1) >= 2
          /\ sa.kind = "ok"
          /\ anytime.path[k] = sa.path
          /\ anytime.visited[k] = sa.closed

EngineUntouched ==
    OPEN = <<>> /\ CLOSED = <<>> /\ PARENT = EmptyDict /\ g = EmptyDict

AnytimeOver == anytime # <<>> /\ pc \in {"adone", "raised", "hung"}

\* C11: searching_repeated_astar(e) performs one run for each weight e,
\* e - 0.5, ... that is >= 1, in descending order; the (path, closed) pair of
\* each run equals that of a standalone search with that weight from an empty
\* state, and no run touches the engine's g, PARENT, OPEN or CLOSED.
C11_AnytimeOneRunPerWeight ==
    AnytimeOver =>
        /\ pc = "adone"
        /\ anytime.e < 2
        /\ AnytimeRunsMatch
        /\ EngineUntouched

\* C11 holds of every call whose goal can be reached
C11_AnytimeReachableGoal ==
    (AnytimeOver /\ MinCostTo(s_goal) < Inf) =>
        /\ pc = "adone"
        /\ anytime.e < 2
        /\ AnytimeRunsMatch
        /\ EngineUntouched

\* with an unreachable goal the first run raises and no later run happens
C11_AnytimeUnreachableRaises ==
    (AnytimeOver /\ MinCostTo(s_goal) = Inf /\ s_start # s_goal
                 /\ anytime.e + Len(anytime.path) >= 2)
        => (pc = "raised" /\ anytime.path = <<>>)

\* a call with e = 2.5 has returned four runs, the first of them costlier
\* than the last
C11_FourRunsReturned ==
    /\ anytime # <<>> /\ pc = "adone"
    /\ Len(anytime.path) = 4
    /\ PathCost(anytime.path[1]) > PathCost(anytime.path[4])

\* an unreachable goal: the call has raised in its first run of several
C11_RaisedInFirstRun ==
    /\ anytime # <<>> /\ pc = "raised"
    /\ anytime.e >= 3

NoDuplicates(p) ==
    \A i \in 1..Len(p), j \in 1..Len(p) : i # j => p[i] # p[j]

\* C12: for every successful search, for every start and goal including
\* start = goal, the returned path contains no coordinate more than once.
C12_PathHasNoDuplicates ==
    (pc = "returned" /\ done = "success") => NoDuplicates(path)

\* C12 holds of every successful search whose start and goal differ
C12_NoDuplicatesDistinctEndpoints ==
    (pc = "returned" /\ done = "success" /\ s_start # s_goal)
        => NoDuplicates(path)

\* a successful search has returned a path of at least four coordinates
C12_LongPathReturned ==
    /\ pc = "returned" /\ done = "success"
    /\ Len(path) >= 4
    /\ obs \cap Interior(GridW, GridH) # {}

\* the eight neighbour offsets
Moves8 == {Motions8[i] : i \in 1..Len(Motions8)}

Diagonal(a, b) == a[1] # b[1] /\ a[2] # b[2]

\* the two orthogonal corner cells of a diagonal move: each shares a row with
\* one endpoint and a column with the other
Corners(a, b) == {<<a[1], b[2]>>, <<b[1], a[2]>>}

\* a diagonal move through a gap between two blocked corner cells
ThroughGap(a, b) == Diagonal(a, b) /\ Corners(a, b) \subseteq obs

\* C13: for every diagonal move (a, b) of the 8 offsets whose two orthogonal
\* corner cells are both blocked, is_collision(a, b) is true and cost(a, b) is
\* infinite, and no returned path contains that move.
C13_DiagonalGapIsBlocked ==
    alg = "AStar" =>
        /\ \A a \in GridCells, u \in Moves8 :
              LET b == <<a[1] + u[1], a[2] + u[2]>> IN
              ThroughGap(a, b) => (is_collision(a, b) /\ cost(a, b) = Inf)
        /\ pc = "returned" =>
              \A i \in 1..(Len(path) - 1) : ~ThroughGap(path[i + 1], path[i])

\* start and goal are free and face each other across a gap between two
\* blocked corner cells, and the returned path goes around it
C13_PathAroundGap ==
    /\ alg = "AStar" /\ pc = "returned"
    /\ s_start \notin obs /\ s_goal \notin obs
    /\ s_goal[1] - s_start[1] \in {-1, 1} /\ s_goal[2] - s_start[2] \in {-1, 1}
    /\ ThroughGap(s_start, s_goal)
    /\ Len(path) > 2

\* C14: for all a and b one of the 8 offsets apart, is_collision(a, b) is true
\* if and only if a or b is blocked, or the move is diagonal and both of its
\* corner cells are blocked.
C14_CollisionIffBothCorners ==
    alg = "AStar" =>
        \A a \in GridCells, u \in Moves8 :
            LET b == <<a[1] + u[1], a[2] + u[2]>> IN
            is_collision(a, b) <=> (a \in obs \/ b \in obs \/ ThroughGap(a, b))

\* what is_collision computes: a diagonal move is blocked as soon as one of
\* its corner cells is
C14_CollisionIffSomeCorner ==
    alg = "AStar" =>
        \A a \in GridCells, u \in Moves8 :
            LET b == <<a[1] + u[1], a[2] + u[2]>> IN
            is_collision(a, b) <=>
                (a \in obs \/ b \in obs
                 \/ (Diagonal(a, b) /\ Corners(a, b) \cap obs # {}))

\* a search has returned on a grid where a diagonal move between free cells
\* has exactly one blocked corner cell
C14_OneCornerBlocked ==
    /\ alg = "AStar" /\ pc = "returned"
    /\ \E a \in FreeCells, u \in Moves8 :
          LET b == <<a[1] + u[1], a[2] + u[2]>> IN
          /\ b \in FreeCells /\ Diagonal(a, b)
          /\ Cardinality(Corners(a, b) \cap obs) = 1

\* C15: two constructions with the same seed, anchors, Environment and
\* sub-region produce overlays with the same keys and the same multiplier for
\* every key, whatever was drawn from the generator before.
C15_SameInputsSameOverlay ==
    ret1 # <<>> =>
        /\ DOMAIN terrain_cost = DOMAIN ret1[1]
        /\ \A k \in DOMAIN terrain_cost : terrain_cost[k] = ret1[1][k]

\* the second construction found the generator in another state than the one
\* the first construction left it in, and the overlay has several keys
C15_RebuiltAfterDraws ==
    /\ ret1 # <<>>
    /\ ret1[2] # rng
    /\ Cardinality(DOMAIN terrain_cost) >= 3
    /\ \E k \in DOMAIN terrain_cost : k \in Interior(GridW, GridH)

\* the while loop of searching() is over: the goal was popped, or the open
\* container is empty
LoopLeft ==
    \/ pc = "found"
    \/ pc = "loop" /\ (IF alg = "DFS" THEN stack = <<>> ELSE OPEN = <<>>)

\* C16: on a grid enclosed by blocked cells every call of searching(), of
\* every variant and weight, eventually leaves its while loop: the goal is
\* popped or the open container becomes empty.
C16_SearchingLeavesItsLoop == [](pc = "loop" => <>LoopLeft)

\* a second call left its loop with the container empty after several
\* iterations
C16_SecondCallExhausted ==
    /\ calls = 2
    /\ LoopLeft
    /\ pc = "loop"
    /\ Len(CLOSED) >= 6

\* C17: extract_path applied to a parent map that has no entry for the goal
\* fails with an error: it returns no path, partial or whole, and does not
\* loop forever.
C17_MissingGoalRaises ==
    (pc \in {"returned", "raised", "hung"} /\ s_goal \notin DOMAIN PARENT)
        => (pc = "raised" /\ path = <<>>)

\* extract_path raised on a parent map with entries for the start and for
\* other coordinates
C17_RaisedOnPartialMap ==
    /\ pc = "raised"
    /\ s_goal \notin DOMAIN PARENT
    /\ s_start \in DOMAIN PARENT
    /\ Cardinality(DOMAIN PARENT) >= 2

\* C18: in the heap variants a popped entry that g has improved on since it
\* was pushed is discarded, so no coordinate appears twice in CLOSED.
C18_ClosedHasNoDuplicates ==
    (alg # "DFS" /\ calls = 1) => NoDuplicates(CLOSED)

\* the loop of BFS.searching run with a first-in first-out queue of
\* coordinates in the place of the heap
FifoRelax(st, s, n) ==
    LET new_cost == Plus(st.g[s], cost(s, n))
        g1 == IF n \in DOMAIN st.g THEN st.g ELSE Put(st.g, n, Inf)
    IN  IF new_cost < g1[n]
        THEN [st EXCEPT !.g = Put(g1, n, new_cost),
                        !.PARENT = Put(@, n, s),
                        !.OPEN = Append(@, n)]
        ELSE [st EXCEPT !.g = g1]

RECURSIVE FifoRelaxFrom(_, _, _)
FifoRelaxFrom(st, s, i) ==
    IF i > Len(u_set) THEN st
    ELSE FifoRelaxFrom(FifoRelax(st, s, Neighbor(s, i)), s, i + 1)

RECURSIVE FifoLoop(_)
FifoLoop(st) ==
    IF st.OPEN = <<>> THEN st
    ELSE LET s == Head(st.OPEN)
             st1 == [st EXCEPT !.OPEN = Tail(@), !.CLOSED = Append(@, s)]
         IN  IF s = s_goal THEN st1 ELSE FifoLoop(FifoRelaxFrom(st1, s, 1))

FifoSearching ==
    LET st == FifoLoop(Frame(Put(Put(EmptyDict, s_start, 0), s_goal, Inf),
                             Put(EmptyDict, s_start, s_start),
                             <<s_start>>, <<>>))
        r == extract_path(st.PARENT)
    IN  [kind |-> r.kind, path |-> r.path, closed |-> st.CLOSED]

\* C19: every entry BFS.searching() pushes gets a priority above those of all
\* entries pushed before it, so the call returns the closed sequence and the
\* path of the same loop run with a first-in first-out queue.
C19_BFSEqualsFifoLoop ==
    (alg = "BFS" /\ calls = 1 /\ pc = "returned")
        => (CLOSED = FifoSearching.closed /\ path = FifoSearching.path)

\* what the priorities in OPEN show of the push order: two entries of the heap
\* never have the same priority
C19_PrioritiesDistinct ==
    (alg = "BFS" /\ calls = 1)
        => \A i, j \in 1..Len(OPEN) : i # j => OPEN[i][1] # OPEN[j][1]

\* C20: for every heap variant and every weight, when searching() succeeds
\* the final g[s_goal] equals the summed cost of the moves of the returned
\* path.
C20_GoalCostIsPathCost ==
    (alg # "DFS" /\ calls = 1 /\ pc = "returned" /\ loc = <<>>)
        => g[s_goal] = PathCost(path)

\* C20 holds of every search whose start and goal differ
C20_PathCostDistinctEndpoints ==
    (alg # "DFS" /\ calls = 1 /\ pc = "returned" /\ loc = <<>>
        /\ s_start # s_goal)
        => g[s_goal] = PathCost(path)

\* AStar with w = 2.5 has returned a path of several moves whose summed cost
\* is the final g[s_goal]
C20_WeightedCostReported ==
    /\ alg = "AStar" /\ heuristic_weight = MaxWeight2
    /\ calls = 1 /\ pc = "returned" /\ loc = <<>>
    /\ s_start # s_goal
    /\ Len(path) >= 4
    /\ g[s_goal] = PathCost(path)

\* the coordinates a search holds: in CLOSED, in the open container, as keys
\* or values of PARENT, in the returned path
Held ==
    {CLOSED[i] : i \in 1..Len(CLOSED)}
        \cup {OPEN[i][2] : i \in 1..Len(OPEN)}
        \cup {stack[i] : i \in 1..Len(stack)}
        \cup DOMAIN PARENT
        \cup {PARENT[k] : k \in DOMAIN PARENT}
        \cup {path[i] : i \in 1..Len(path)}

\* C21: given start is not blocked, in every reachable state of every
\* variant no blocked coordinate is in CLOSED, in the open container, a key
\* or a value of PARENT or in the returned path, and a blocked coordinate
\* with a g entry has g = +infinity.
C21_BlockedNeverHeld ==
    s_start \notin obs =>
        /\ Held \cap obs = {}
        /\ \A n \in DOMAIN g \cap obs : g[n] = Inf

\* a search has returned on a grid with inner obstacles after looking at
\* blocked neighbours
C21_ReturnedPastObstacles ==
    /\ s_start \notin obs
    /\ pc = "returned"
    /\ Len(CLOSED) >= 4
    /\ \E n \in DOMAIN g \cap obs : n \in Interior(GridW, GridH)

\* the parent links form a tree rooted at s_start along which g strictly
\* decreases
ParentTree ==
    /\ s_start \in DOMAIN g /\ g[s_start] = 0
    /\ s_start \in DOMAIN PARENT /\ PARENT[s_start] = s_start
    /\ \A n \in DOMAIN PARENT \ {s_start} :
          /\ n \in DOMAIN g /\ g[n] < Inf
          /\ PARENT[n] \in DOMAIN g
          /\ Plus(g[PARENT[n]], cost(PARENT[n], n)) <= g[n]
          /\ g[PARENT[n]] < g[n]
          /\ Walk(PARENT, n, <<n>>).kind = "ok"

\* C22: in every reachable state of the heap variants the parent links form
\* a tree rooted at start: g[start] = 0 and parent[start] = start are never
\* overwritten, every other coordinate n with a parent has finite g[n] with
\* g[parent[n]] + cost(parent[n], n) <= g[n], and the links from n reach
\* start with g strictly decreasing.
C22_ParentLinksFormTree ==
    (alg # "DFS" /\ calls >= 1) => ParentTree

\* C22 holds of the first call on every engine whose start and goal differ
C22_ParentTreeDistinctEndpoints ==
    (alg # "DFS" /\ calls = 1 /\ s_start # s_goal) => ParentTree

\* weighted AStar has returned with parent links for most of the grid
C22_TreeAfterWeightedSearch ==
    /\ alg = "AStar" /\ heuristic_weight = MaxWeight2
    /\ calls = 1 /\ s_start # s_goal
    /\ pc = "returned"
    /\ Cardinality(DOMAIN PARENT) >= 6

\* what the current call of searching() has appended to CLOSED
RunClosed ==
    SubSeq(CLOSED, (IF calls = 2 THEN Len(ret1[2]) ELSE 0) + 1, Len(CLOSED))

\* the coordinates one iteration of the DFS loop has pushed
Pushed == SubSeq(stack', Len(stack), Len(stack'))

C24_LoopStopsAtGoal ==
    [][/\ (pc = "loop" /\ pc' \in {"loop", "found"}) =>
             /\ Len(CLOSED') = Len(CLOSED) + 1
             /\ CLOSED'[1] = s_start
             /\ (CLOSED'[Len(CLOSED')] = s_goal) <=> (pc' = "found")
       /\ (pc = "loop" /\ pc' = "found") =>
             /\ CLOSED' = Append(CLOSED, s_goal)
             /\ g' = g /\ PARENT' = PARENT
             /\ IF alg = "DFS"
                THEN /\ stack' = SubSeq(stack, 1, Len(stack) - 1)
                     /\ visited' = visited
                ELSE Len(OPEN') = Len(OPEN) - 1
       /\ pc = "found" =>
             /\ CLOSED' = CLOSED
             /\ CLOSED[Len(CLOSED)] = s_goal
             /\ pc' \in {"returned", "raised", "hung"}
    ]_vars

\* the goal was popped after several coordinates while others were still
\* waiting in the heap
C24_GoalPoppedWithOpenLeft ==
    /\ alg # "DFS" /\ pc = "found"
    /\ Len(CLOSED) >= 4
    /\ Len(OPEN) >= 2
    /\ CLOSED[1] = s_start /\ CLOSED[Len(CLOSED)] = s_goal

\* one iteration of Dijkstra's loop pops the entry at the root of the heap:
\* nothing left or pushed has a smaller priority, the coordinate popped for
\* the first time has its minimum cost in g, and no coordinate of CLOSED gets
\* a smaller g
DijkstraPopInOrder ==
    LET s == OPEN[1][2]
        closed == {CLOSED[i] : i \in 1..Len(CLOSED)}
    IN  /\ \A i \in 1..Len(OPEN') : OPEN'[i][1] >= OPEN[1][1]
        /\ s \notin closed => g[s] = MinCostTo(s)
        /\ \A n \in closed \cup {s} : g'[n] = g[n]

\* C25: Dijkstra variant: the priorities of successively popped entries are
\* non-decreasing over the whole run, the first time a coordinate n is popped
\* g[n] is the minimum cost of any unblocked 4-directional path from start to
\* n, and no later relaxation lowers the g of a coordinate in CLOSED.
C25_DijkstraPopsInOrder ==
    [][(alg = "Dijkstra" /\ calls = 1 /\ pc = "loop"
           /\ pc' \in {"loop", "found"}) => DijkstraPopInOrder]_vars

\* C25 holds of every search from a free start to another coordinate
C25_PopsInOrderDistinctEndpoints ==
    [][(alg = "Dijkstra" /\ calls = 1 /\ pc = "loop"
           /\ pc' \in {"loop", "found"}
           /\ s_start # s_goal /\ s_start \notin obs) => DijkstraPopInOrder]_vars

\* Dijkstra has popped a coordinate whose parent is not the neighbour that
\* was expanded first: an overlay coordinate was gone around
C25_PoppedAfterOverlay ==
    /\ alg = "Dijkstra" /\ calls = 1 /\ pc = "loop"
    /\ s_start # s_goal /\ s_start \notin obs
    /\ terrain_cost # EmptyDict
    /\ Len(CLOSED) >= 5
    /\ \E i \in 1..Len(CLOSED) : get_terrain_cost(CLOSED[i]) > 1

\* the coordinates at Manhattan distance exactly RingDistance from an anchor
\* that are neither blocked nor an anchor
RingCells ==
    {c \in {<<a[1] + dx, a[2] + dy>> :
               a \in {s_start, s_goal},
               dx \in (-RingDistance)..RingDistance,
               dy \in (-RingDistance)..RingDistance} :
        /\ c \notin obs \cup {s_start, s_goal}
        /\ \E a \in {s_start, s_goal} :
               Abs(c[1] - a[1]) + Abs(c[2] - a[2]) = RingDistance}

\* both rings have been drawn
RingsDrawn == pc \notin {"ring_start", "ring_goal"}

\* C26: once both rings are drawn, every coordinate at Manhattan distance 3
\* from the start or the goal that is not blocked and is not an anchor has a
\* multiplier in {2, 3, 4, 5}, and no later step of the construction (the
\* tier placement) or of a search changes the multiplier the ring gave it.
C26_RingCellsKeepMultiplier ==
    [][RingsDrawn' =>
          \A c \in RingCells :
              /\ c \in DOMAIN terrain_cost'
              /\ terrain_cost'[c] \in TerrainTiers
              /\ RingsDrawn => terrain_cost'[c] = terrain_cost[c]]_vars

\* construction has returned with a ring coordinate inside the region the
\* tiers sample from and with a coordinate a tier has placed
C26_RingAndTierPlaced ==
    /\ pc = "ready"
    /\ terrain_loc = <<>>
    /\ \E c \in RingCells :
           /\ c[1] \in {RegionXs[i] : i \in 1..Len(RegionXs)}
           /\ c[2] \in {RegionYs[i] : i \in 1..Len(RegionYs)}
    /\ DOMAIN terrain_cost \ RingCells # {}

\* the counters of the tier loop stay within the target and the attempts
TierCountersBounded ==
    pc = "tiers" =>
        /\ terrain_loc.attempts <= MaxAttempts
        /\ terrain_loc.placed <= TierTarget
        /\ terrain_loc.placed <= terrain_loc.attempts

\* an iteration counts one attempt, and counts a placement exactly when it
\* gave one new coordinate the multiplier and the colour of the tier
IterationCountsPlacement ==
    (pc = "tiers" /\ pc' = "tiers" /\ terrain_loc'.k = terrain_loc.k) =>
        /\ terrain_loc'.attempts = terrain_loc.attempts + 1
        /\ \/ /\ terrain_loc'.placed = terrain_loc.placed
              /\ terrain_cost' = terrain_cost
           \/ /\ terrain_loc'.placed = terrain_loc.placed + 1
              /\ \E n \in DOMAIN terrain_cost' \ DOMAIN terrain_cost :
                    /\ DOMAIN terrain_cost' = DOMAIN terrain_cost \cup {n}
                    /\ terrain_cost'[n] = terrain_types[terrain_loc.k][1]
                    /\ \A c \in DOMAIN terrain_cost :
                           terrain_cost'[c] = terrain_cost[c]

\* a tier loop is left full or out of attempts
TierLeftFullOrSpent ==
    (pc = "tiers" /\ (pc' # "tiers" \/ terrain_loc'.k # terrain_loc.k)) =>
        \/ terrain_loc.placed = TierTarget
        \/ terrain_loc.attempts = MaxAttempts

OverlayWellFormed ==
    /\ DOMAIN terrain_cost \cap (obs \cup {s_start, s_goal}) = {}
    /\ \A n \in DOMAIN terrain_cost : terrain_cost[n] \in TerrainTiers
    /\ DOMAIN terrain_colors = DOMAIN terrain_cost
    /\ \A n \in DOMAIN terrain_cost :
           terrain_colors[n] =
               (CASE terrain_cost[n] = 2 -> "red"
                  [] terrain_cost[n] = 3 -> "yellow"
                  [] terrain_cost[n] = 4 -> "blue"
                  [] OTHER -> "green")

\* __init__ has not returned yet
Constructing == pc \in {"ring_start", "ring_goal", "tiers"}

\* C28: in every state of the construction and of the searches after it the
\* overlay has no start, goal or blocked coordinate as a key, every multiplier
\* is in {2, 3, 4, 5} and terrain_colors has the keys of terrain_cost, each
\* with the colour of its multiplier; no step taken after the construction
\* (searching() and its return) changes the overlay.
C28_OverlayWellFormedAndFrozen ==
    /\ []OverlayWellFormed
    /\ [][~Constructing => UNCHANGED <<terrain_cost, terrain_colors>>]_vars

\* a search on a constructed engine has closed a coordinate of an overlay
\* that holds more than the rings
C28_SearchedOverOverlay ==
    /\ calls = 1
    /\ pc = "returned"
    /\ DOMAIN terrain_cost \ RingCells # {}
    /\ \E i \in 1..Len(CLOSED) : CLOSED[i] \in DOMAIN terrain_cost

\* C29: constructing an engine leaves the process-wide generator in the state
\* it found it in, so that the values another user draws afterwards are the
\* ones it would have drawn without the construction.
C29_ConstructionLeavesGenerator ==
    [][(ret1 = <<>> /\ ret1' # <<>>) => rng' = rng]_vars

\* C30: the rendering call leaves the engine's closed sequence, its path and
\* its g map as searching() returned them.
C30_RenderingOnlyReads ==
    [][pc' = "plotted" => (CLOSED' = CLOSED /\ path' = path /\ g' = g)]_vars

\* what the rendering call does keep: the path, the g map, and the closed
\* sequence but for at most two entries, which are the start or the goal
C30_RenderingKeepsPathAndCosts ==
    [][pc' = "plotted" =>
          /\ path' = path
          /\ g' = g
          /\ Len(CLOSED') >= Len(CLOSED) - 2
          /\ SelectSeq(CLOSED', LAMBDA x : x \notin {s_start, s_goal})
                 = SelectSeq(CLOSED, LAMBDA x : x \notin {s_start, s_goal})]_vars

\* a returned search has been rendered and its closed sequence is shorter
C30_RenderedAfterSearch ==
    /\ pc = "plotted"
    /\ path # <<>>
    /\ s_start # s_goal
    /\ ~InList(CLOSED, s_goal)
    /\ Len(CLOSED) >= 3

====
